---- MODULE Spec2Model ----
(***************************************************************************)
(* Model of hw_monitor (detect_hw_usage): the rate computations of the     *)
(* network, storage and CPU detectors, the by-name process queries, and    *)
(* the GPU backends (NVML-driven and sysfs-driven) behind GPUDetector.     *)
(***************************************************************************)
EXTENDS Integers, Sequences, FiniteSets, TLC

VARIABLES
    net_pc,         \* position inside NetworkDetector::Impl::get_interface_info
    net_initial,    \* initial_stats: iface -> [rx, tx]
    net_final,      \* final_stats:   iface -> [rx, tx]
    net_result,     \* the returned NetworkInterfaceInfo records
    sto_pc,         \* position inside StorageDetector::get_process_info(pid)
    sto_initial,    \* initial_stats: key -> value of /proc/<pid>/io
    sto_final,      \* final_stats
    sto_result,     \* the returned optional<StorageProcessInfo>
    cpu_pc,         \* position inside CPUDetector::get_cpu_info
    cpu_initial,    \* initial_stats: cpu id (-1 the aggregate line) -> CPUStats
    cpu_final,      \* final_stats
    cpu_result,     \* the returned CPUInfo
    procs,          \* /proc: pid -> what the files of /proc/<pid> hold
    pq_pc,          \* "idle", or "done" once a by-name query has returned
    pq_call,        \* the by-name query made: detector and process_name
    pq_result,      \* the optional<vector<...ProcessInfo>> it returned
    nv_env,         \* what the NVIDIA constructor finds: marker file, libraries, symbols
    nv_hw,          \* what the NVML entry points answer: devices and their processes
    nv,             \* the NvidiaGPUDetector object
    nv_last,        \* the last call made on the NvidiaGPUDetector and what it returned
    amd_hw,         \* /sys/class/drm: the card entries in directory order
    amd,            \* the AMDGPUDetector object
    agg,            \* the GPUDetector singleton: implementations_, probes and queries made
    agg_last,       \* the last GPUDetector call: what each backend returned and the result
    list_hist,      \* the last two GPUDetector::get_gpu_info() calls with no hardware change between
    pt_initial,     \* initial_times of the per-process CPU queries: pid -> utime + stime
    pt_final,       \* final_times
    pt_call,        \* the per-process CPU query made
    pt_result       \* what it returned

netVars == <<net_pc, net_initial, net_final, net_result>>
stoVars == <<sto_pc, sto_initial, sto_final, sto_result>>

cpuVars == <<cpu_pc, cpu_initial, cpu_final, cpu_result>>

pqVars  == <<pq_pc, pq_call, pq_result>>

nvVars  == <<nv_env, nv_hw, nv, nv_last>>

aggVars == <<amd_hw, amd, agg, agg_last, list_hist>>

ptVars  == <<pt_initial, pt_final, pt_call, pt_result>>

vars == <<netVars, stoVars, cpuVars, procs, pqVars, nvVars, aggVars, ptVars>>

\* what an action of one detector leaves alone
notNet == <<stoVars, cpuVars, procs, pqVars, nvVars, aggVars, ptVars>>
notSto == <<netVars, cpuVars, procs, pqVars, nvVars, aggVars, ptVars>>
notCpu == <<netVars, stoVars, procs, pqVars, nvVars, aggVars, ptVars>>
notPq  == <<netVars, stoVars, cpuVars, procs, nvVars, aggVars, ptVars>>
notNv  == <<netVars, stoVars, cpuVars, procs, pqVars, aggVars, ptVars>>
notGpu == <<netVars, stoVars, cpuVars, procs, pqVars, ptVars>>
notPt  == <<netVars, stoVars, cpuVars, pqVars, nvVars, aggVars>>

----------------------------------------------------------------------------
(* Unsigned 64-bit arithmetic.  The counters are uint64_t; the model keeps *)
(* the modular arithmetic at a reduced width of CounterBits bits, so that  *)
(* Wrap stands for 2^64.                                                   *)
CounterBits == 16
Wrap == 2 ^ CounterBits

\* a - b on uint64_t
USub(a, b) == (a - b + Wrap) % Wrap

\* a + b on uint64_t
UAdd(a, b) == (a + b) % Wrap

(* float time_diff = 0.1f; x / time_diff with x converted from uint64_t.   *)
(* For every x whose tenfold has at most 24 significant bits (all values   *)
(* below Wrap here) the single-precision quotient x / 0.1f is exactly      *)
(* 10 * x: 0.1f is off from 1/10 by 1.5e-8 relative, less than half an ulp.*)
DivTimeDiff(x) == x * 10

(* A float quotient n / d of two non-negative operands, kept as the pair   *)
(* of its operands: d = 0 gives NaN when n = 0 and +infinity otherwise.    *)
FloatDiv(n, d) == [num |-> n, den |-> d]
IsNaN(f) == f.den = 0 /\ f.num = 0
IsInf(f) == f.den = 0 /\ f.num # 0
IsZero(f) == f.den # 0 /\ f.num = 0

\* std::optional<T>
Nullopt == [has_value |-> FALSE]
Some(v) == [has_value |-> TRUE, value |-> v]

----------------------------------------------------------------------------
(* Network interfaces: /proc/net/dev.                                      *)

Ifaces == {"lo", "eth0"}

\* counter readings that occur in a snapshot
CounterValues == {0, 100, 1100, Wrap - 1}

IfaceStats == [rx : CounterValues, tx : {0, 100, Wrap - 1}]

\* read_interface_stats(): one entry per line of /proc/net/dev
InterfaceStatsMaps == UNION {[S -> IfaceStats] : S \in SUBSET Ifaces}

\* std::unordered_map::operator[] on a const-less map: a missing key is
\* value-initialised, here to the pair {0, 0}
StatsAt(m, iface) == IF iface \in DOMAIN m THEN m[iface] ELSE [rx |-> 0, tx |-> 0]

\* the transmit counters taken for the receive rate
ReceiveRate_FromTransmit(initial, final, iface) ==
    DivTimeDiff(USub(final[iface].tx, StatsAt(initial, iface).tx))

\* receive_bytes_per_sec = (stats.first - initial_stats[iface].first) / time_diff
ReceiveRate(initial, final, iface) ==
    DivTimeDiff(USub(final[iface].rx, StatsAt(initial, iface).rx))

\* transmit_bytes_per_sec = (stats.second - initial_stats[iface].second) / time_diff
TransmitRate(initial, final, iface) ==
    DivTimeDiff(USub(final[iface].tx, StatsAt(initial, iface).tx))

\* the loop of get_interface_info over final_stats, skipping the loopback;
\* the vector's order is the unordered_map's iteration order, so the result
\* is kept as a set of records
InterfaceInfos(initial, final) ==
    { [ name                    |-> i,
        total_received_bytes    |-> final[i].rx,
        total_transmitted_bytes |-> final[i].tx,
        receive_bytes_per_sec   |-> ReceiveRate(initial, final, i),
        transmit_bytes_per_sec  |-> TransmitRate(initial, final, i) ]
      : i \in DOMAIN final \ {"lo"} }

NetIdle ==
    /\ net_pc = "idle"
    /\ net_initial = <<>>
    /\ net_final = <<>>
    /\ net_result = {}

\* get_interface_info, up to the sleep: initial_stats = read_interface_stats()
NetReadInitial ==
    /\ net_pc = "idle"
    /\ \E a \in InterfaceStatsMaps : net_initial' = a
    /\ net_pc' = "sleeping"
    /\ UNCHANGED <<net_final, net_result, notNet>>

\* get_interface_info, after the 100 ms sleep: final_stats, the loop, return
NetReadFinal ==
    /\ net_pc = "sleeping"
    /\ \E b \in InterfaceStatsMaps :
          /\ net_final' = b
          /\ net_result' = InterfaceInfos(net_initial, b)
    /\ net_pc' = "done"
    /\ UNCHANGED <<net_initial, notNet>>

----------------------------------------------------------------------------
(* Per-process storage I/O: /proc/<pid>/io.                                *)

IoKeys == {"read_bytes", "write_bytes"}

\* read_io_stats(pid): the "key: value" lines of /proc/<pid>/io, or no entry
\* at all when the file cannot be opened
IoStatsMaps == {<<>>} \cup [IoKeys -> CounterValues]

\* std::unordered_map::operator[]: a missing key is value-initialised to 0
IoAt(m, key) == IF key \in DOMAIN m THEN m[key] ELSE 0

\* (final_stats["read_bytes"] - initial_stats["read_bytes"]) / time_diff
ReadRate(initial, final) ==
    DivTimeDiff(USub(IoAt(final, "read_bytes"), IoAt(initial, "read_bytes")))

\* (final_stats["write_bytes"] - initial_stats["write_bytes"]) / time_diff
WriteRate(initial, final) ==
    DivTimeDiff(USub(IoAt(final, "write_bytes"), IoAt(initial, "write_bytes")))

StoIdle ==
    /\ sto_pc = "idle"
    /\ sto_initial = <<>>
    /\ sto_final = <<>>
    /\ sto_result = Nullopt

\* get_process_info(pid) when /proc/<pid> does not exist: std::nullopt
StoNoProcess ==
    /\ sto_pc = "idle"
    /\ sto_pc' = "done"
    /\ sto_result' = Nullopt
    /\ UNCHANGED <<sto_initial, sto_final, notSto>>

\* get_process_info(pid), up to the sleep: initial_stats = read_io_stats(pid)
StoReadInitial ==
    /\ sto_pc = "idle"
    /\ \E a \in IoStatsMaps : sto_initial' = a
    /\ sto_pc' = "sleeping"
    /\ UNCHANGED <<sto_final, sto_result, notSto>>

\* get_process_info(pid), after the sleep: final_stats, the rates, return
StoReadFinal ==
    /\ sto_pc = "sleeping"
    /\ \E b \in IoStatsMaps :
          /\ sto_final' = b
          /\ sto_result' = Some([ read_bytes_per_sec  |-> ReadRate(sto_initial, b),
                                  write_bytes_per_sec |-> WriteRate(sto_initial, b) ])
    /\ sto_pc' = "done"
    /\ UNCHANGED <<sto_initial, notSto>>

----------------------------------------------------------------------------
(* CPU ticks: /proc/stat.                                                  *)

\* the cores std::thread::hardware_concurrency() can report
MaxCores == 2

CpuIds == {-1} \cup (0 .. MaxCores - 1)

\* CPUStats, one line of /proc/stat
CPUStatsSamples ==
    [ user : {0, 2}, nice : {0}, system : {0}, idle : {0, 3}, iowait : {0},
      irq : {0}, softirq : {0}, steal : {0}, guest : {0}, guest_nice : {0} ]

ZeroStats ==
    [ user |-> 0, nice |-> 0, system |-> 0, idle |-> 0, iowait |-> 0,
      irq |-> 0, softirq |-> 0, steal |-> 0, guest |-> 0, guest_nice |-> 0 ]

\* read_cpu_stats(): one entry per "cpu" line
CpuStatsMaps == UNION {[S -> CPUStatsSamples] : S \in SUBSET CpuIds}

\* CPUStats::get_idle
get_idle(s) == UAdd(s.idle, s.iowait)

\* CPUStats::get_non_idle
get_non_idle(s) ==
    UAdd(UAdd(UAdd(UAdd(UAdd(UAdd(UAdd(s.user, s.nice), s.system), s.irq),
                   s.softirq), s.steal), s.guest), s.guest_nice)

\* CPUStats::get_total
get_total(s) == UAdd(get_idle(s), get_non_idle(s))

\* std::map::operator[]: a missing key is value-initialised
CpuStatsAt(m, id) == IF id \in DOMAIN m THEN m[id] ELSE ZeroStats

\* ((total_diff - idle_diff) * 100.0f) / total_diff
UsagePercent(initial, final) ==
    LET total_diff == USub(get_total(final), get_total(initial))
        idle_diff  == USub(get_idle(final), get_idle(initial))
    IN  FloatDiv(USub(total_diff, idle_diff) * 100, total_diff)

\* what an uninitialised float member can hold
GarbageFloats == {FloatDiv(0, 1), FloatDiv(7, 1)}

\* the per-core loop of get_cpu_info: cores[i] for i < core_count; garbage is
\* what core.usage_percent holds when no usage is computed for the core
CoreInfos(initial, final, core_count, garbage) ==
    [ k \in 1 .. core_count |->
        [ core_id       |-> k - 1,
          usage_percent |->
              IF (k - 1) \in DOMAIN initial /\ (k - 1) \in DOMAIN final
              THEN UsagePercent(initial[k - 1], final[k - 1])
              ELSE garbage ] ]

\* usage_per_core: one push_back for every core present in both snapshots
RECURSIVE UsagePerCore(_, _, _)
UsagePerCore(initial, final, core_count) ==
    IF core_count = 0 THEN <<>>
    ELSE LET rest == UsagePerCore(initial, final, core_count - 1)
             i    == core_count - 1
         IN  IF i \in DOMAIN initial /\ i \in DOMAIN final
             THEN Append(rest, UsagePercent(initial[i], final[i]))
             ELSE rest

CpuIdle ==
    /\ cpu_pc = "idle"
    /\ cpu_initial = <<>>
    /\ cpu_final = <<>>
    /\ cpu_result = <<>>

\* get_cpu_info, up to the sleep: initial_stats = read_cpu_stats()
CpuReadInitial ==
    /\ cpu_pc = "idle"
    /\ \E a \in CpuStatsMaps : cpu_initial' = a
    /\ cpu_pc' = "sleeping"
    /\ UNCHANGED <<cpu_final, cpu_result, notCpu>>

\* get_cpu_info, after the sleep: final_stats, total and per-core usage
CpuReadFinal ==
    /\ cpu_pc = "sleeping"
    /\ \E b \in CpuStatsMaps, n \in 0 .. MaxCores, g \in GarbageFloats :
          /\ cpu_final' = b
          /\ cpu_result' =
                [ core_count          |-> n,
                  total_usage_percent |->
                      UsagePercent(CpuStatsAt(cpu_initial, -1), CpuStatsAt(b, -1)),
                  cores               |-> CoreInfos(cpu_initial, b, n, g),
                  usage_per_core      |-> UsagePerCore(cpu_initial, b, n) ]
    /\ cpu_pc' = "done"
    /\ UNCHANGED <<cpu_initial, notCpu>>

----------------------------------------------------------------------------
(* Processes: /proc/<pid>/comm, /proc/<pid>/cmdline, and the by-name       *)
(* queries of the CPU, network, storage and RAM detectors.                 *)

\* the pids a /proc listing can show
MaxPid == 2

Pids == 1 .. MaxPid

\* std::string::find(sub) != npos; strings are sequences of characters
Contains(str, sub) ==
    \E i \in 0 .. (Len(str) - Len(sub)) : SubSeq(str, i + 1, i + Len(sub)) = sub

\* what one /proc/<pid> holds: the first line of comm ("" when it cannot be
\* opened), the first line of cmdline, whether maps or fd refer to a DRM
\* device node, and whether the directory is gone by the time the per-pid
\* query looks for it; listed = FALSE: no such directory
Absent == [listed |-> FALSE, comm |-> <<>>, cmdline |-> <<>>, dri |-> FALSE, gone |-> FALSE]

Proc(comm, cmdline, dri, gone) ==
    [listed |-> TRUE, comm |-> comm, cmdline |-> cmdline, dri |-> dri, gone |-> gone]

ProcEntries ==
    { Absent,
      Proc(<<"c", "h">>, <<"/", "c", "h">>, FALSE, FALSE),
      Proc(<<"c", "h", "_">>, <<"/", "c", "h", "_">>, FALSE, FALSE),
      Proc(<<"C", "h">>, <<"/", "C", "h">>, FALSE, FALSE),
      Proc(<<"x">>, <<"x", "c", "h">>, FALSE, FALSE),
      Proc(<<>>, <<>>, FALSE, TRUE),
      Proc(<<"c", "h">>, <<"/", "c", "h">>, FALSE, TRUE) }

\* the process_name arguments
QueryNames == { <<"c", "h">>, <<"z">>, <<>> }

\* result.empty() ? std::nullopt : std::make_optional(result)
OptionalOfVector_AlwaysPresent(result) == Some(result)

OptionalOfVector(result) == IF result = <<>> THEN Nullopt ELSE Some(result)

\* the walk over /proc in directory order, keeping the pids in keeps (those
\* the detector's test accepts)
RECURSIVE ScanProc(_, _, _)
ScanProc(table, keeps, n) ==
    IF n = 0 THEN <<>>
    ELSE LET rest == ScanProc(table, keeps, n - 1)
         IN  IF table[n].listed /\ n \in keeps
             THEN Append(rest, [pid |-> n, process_name |-> table[n].comm])
             ELSE rest

\* CPUDetector: !comm.empty() && comm.find(process_name) != npos
CpuKeeps(table, name, pid) ==
    table[pid].comm # <<>> /\ Contains(table[pid].comm, name)

\* NetworkDetector and StorageDetector: the same test, then
\* get_process_info(pid), which is nullopt when /proc/<pid> is gone
NetKeeps(table, name, pid) ==
    /\ table[pid].comm # <<>>
    /\ Contains(table[pid].comm, name)
    /\ ~table[pid].gone

\* RAMDetector: proc_info.process_name.find(process_name) != npos
RamKeeps(table, name, pid) == Contains(table[pid].comm, name)

\* CPUDetector::get_process_info(const std::string&)
CpuByNameResult(table, name) ==
    LET keeps == {pid \in Pids : CpuKeeps(table, name, pid)}
    IN  OptionalOfVector(ScanProc(table, keeps, MaxPid))

\* NetworkDetector::Impl::get_process_info(const std::string&)
NetByNameResult(table, name) ==
    LET keeps == {pid \in Pids : NetKeeps(table, name, pid)}
    IN  OptionalOfVector(ScanProc(table, keeps, MaxPid))

\* StorageDetector::get_process_info(const std::string&)
StoByNameResult(table, name) ==
    LET keeps == {pid \in Pids : NetKeeps(table, name, pid)}
    IN  OptionalOfVector(ScanProc(table, keeps, MaxPid))

\* RAMDetector::Impl::get_process_info(const std::string&)
RamByNameResult(table, name) ==
    LET keeps == {pid \in Pids : RamKeeps(table, name, pid)}
    IN  OptionalOfVector(ScanProc(table, keeps, MaxPid))

NoProcs == procs = [p \in Pids |-> Absent]

PqIdle ==
    /\ pq_pc = "idle"
    /\ pq_call = [detector |-> "none", process_name |-> <<>>]
    /\ pq_result = Nullopt

\* no per-process CPU query made
PtIdle ==
    /\ pt_initial = <<>>
    /\ pt_final = <<>>
    /\ pt_call = [op |-> "none"]
    /\ pt_result = <<>>

CpuByName ==
    \E name \in QueryNames :
        /\ pq_call' = [detector |-> "cpu", process_name |-> name]
        /\ pq_result' = CpuByNameResult(procs, name)
        /\ pq_pc' = "done"
        /\ UNCHANGED notPq

NetByName ==
    \E name \in QueryNames :
        /\ pq_call' = [detector |-> "network", process_name |-> name]
        /\ pq_result' = NetByNameResult(procs, name)
        /\ pq_pc' = "done"
        /\ UNCHANGED notPq

StoByName ==
    \E name \in QueryNames :
        /\ pq_call' = [detector |-> "storage", process_name |-> name]
        /\ pq_result' = StoByNameResult(procs, name)
        /\ pq_pc' = "done"
        /\ UNCHANGED notPq

RamByName ==
    \E name \in QueryNames :
        /\ pq_call' = [detector |-> "ram", process_name |-> name]
        /\ pq_result' = RamByNameResult(procs, name)
        /\ pq_pc' = "done"
        /\ UNCHANGED notPq

----------------------------------------------------------------------------
(* The Dynamic Vendor Backend: NvidiaGPUDetector over libnvidia-ml.        *)

\* the candidate library names tried by dlopen, in order
NumLibNames == 4

\* the entry points load_functions resolves
NvSymbols ==
    { "nvmlInit_v2", "nvmlShutdown", "nvmlDeviceGetCount_v2",
      "nvmlDeviceGetHandleByIndex_v2", "nvmlDeviceGetName",
      "nvmlDeviceGetMemoryInfo", "nvmlDeviceGetTemperature",
      "nvmlDeviceGetUtilizationRates", "nvmlDeviceGetComputeRunningProcesses",
      "nvmlDeviceGetGraphicsRunningProcesses", "nvmlDeviceGetProcessUtilization" }

\* the object before its constructor has run.  phase: "Unloaded", "Probing"
\* (marker found and library loaded), "Unavailable", "Initialized", "Crashed"
\* (a call through a null function pointer), "Destroyed".  loaded: whether
\* load_functions has assigned the function pointers (they are not
\* initialised before); ptrs: the pointers that are non-null; calls: the
\* entry points invoked by the constructor and the destructor, in order.
NvUnloaded ==
    [ phase |-> "Unloaded", initialized_ |-> FALSE, nvml_handle_ |-> 0,
      loaded |-> FALSE, ptrs |-> {}, calls |-> <<>> ]

\* check_nvidia_gpu(): /proc/driver/nvidia/version can be opened
check_nvidia_gpu(env) == env.marker

\* the dlopen loop: the first candidate that loads, 0 (nullptr) when none does
FirstLoadable(env) ==
    IF env.libs = {} THEN 0
    ELSE CHOOSE k \in env.libs : \A j \in env.libs : k <= j

\* the constructor up to the library handle (lines 16-47)
NvProbed(obj, env) ==
    IF ~check_nvidia_gpu(env)
    THEN [obj EXCEPT !.phase = "Unavailable"]
    ELSE IF FirstLoadable(env) = 0
         THEN [obj EXCEPT !.phase = "Unavailable"]
         ELSE [obj EXCEPT !.phase = "Probing", !.nvml_handle_ = FirstLoadable(env)]

\* load_functions() that reports success whatever nvmlInit_v2 returns
load_functions_AnyReturnOk(obj, env) ==
    LET resolved == [obj EXCEPT !.loaded = TRUE, !.ptrs = env.syms]
    IN  IF "nvmlInit_v2" \in env.syms
        THEN [ ok  |-> TRUE,
               obj |-> [resolved EXCEPT !.calls = Append(@, "nvmlInit_v2")] ]
        ELSE [ ok |-> FALSE, obj |-> resolved ]

\* load_functions(): every pointer assigned from dlsym, then
\* nvmlInit_v2_ptr && nvmlInit_v2_ptr() == NVML_SUCCESS
load_functions(obj, env) ==
    LET resolved == [obj EXCEPT !.loaded = TRUE, !.ptrs = env.syms]
    IN  IF "nvmlInit_v2" \in env.syms
        THEN [ ok  |-> env.init_rets[1] = "SUCCESS",
               obj |-> [resolved EXCEPT !.calls = Append(@, "nvmlInit_v2")] ]
        ELSE [ ok |-> FALSE, obj |-> resolved ]

\* the constructor from the library handle on (lines 49-67)
NvInitialized(obj, env) ==
    LET lf == load_functions(obj, env)
    IN  IF ~lf.ok
        THEN [lf.obj EXCEPT !.phase = "Unavailable"]
        ELSE LET again == [lf.obj EXCEPT !.calls = Append(@, "nvmlInit_v2")]
             IN  IF env.init_rets[2] # "SUCCESS"
                 THEN [again EXCEPT !.phase = "Unavailable"]
                 ELSE IF "nvmlDeviceGetCount_v2" \in again.ptrs
                      THEN [again EXCEPT !.phase = "Initialized",
                                         !.initialized_ = TRUE,
                                         !.calls = Append(@, "nvmlDeviceGetCount_v2")]
                      ELSE [again EXCEPT !.phase = "Crashed", !.initialized_ = TRUE]

\* NvidiaGPUDetector::NvidiaGPUDetector(), the whole constructor
NvConstructed(env) ==
    LET probed == NvProbed(NvUnloaded, env)
    IN  IF probed.phase = "Probing" THEN NvInitialized(probed, env) ELSE probed

\* NvidiaGPUDetector::~NvidiaGPUDetector()
NvDestroyed(obj) ==
    LET shut == IF obj.initialized_ /\ "nvmlShutdown" \in obj.ptrs
                THEN Append(obj.calls, "nvmlShutdown") ELSE obj.calls
    IN  [obj EXCEPT !.phase = "Destroyed", !.calls = shut, !.nvml_handle_ = 0]

\* NvidiaGPUDetector::is_available()
NvIsAvailableResult(obj) == obj.initialized_

(* The NVML side.  nv_hw.count_ok: nvmlDeviceGetCount_v2 succeeds;          *)
(* nv_hw.devs[i + 1] answers for device index i: handle_ok, the sub-queries *)
(* that fail, the compute and graphics process lists (pids) and the         *)
(* utilization samples [pid, timeStamp, smUtil] with util_ret, the return   *)
(* codes of the first and of the second nvmlDeviceGetProcessUtilization.    *)
SubQueries == {"name", "memory", "temperature", "utilization", "compute", "graphics"}

NvDevice(handle_ok, failing, compute, graphics, util_ret, samples) ==
    [ handle_ok |-> handle_ok, failing |-> failing, compute |-> compute,
      graphics |-> graphics, util_ret |-> util_ret, samples |-> samples ]

\* what an uninitialised member of GPUInfo or GPUProcessInfo can hold
GarbageValues == {0, 7}

\* a call returns a value, goes through a null function pointer, or lets an
\* exception out; calls: the NVML entry points it went through
Returned(value, calls) == [outcome |-> "returned", value |-> value, calls |-> calls]
NullCall(calls) == [outcome |-> "crashed", value |-> <<>>, calls |-> calls]
Threw == [outcome |-> "threw", value |-> <<>>, calls |-> {}]

\* GPUProcessInfo (memory_usage_mb left out)
GPUProcessInfo(pid, process_name, gpu_index, gpu_usage_percent) ==
    [ pid |-> pid, process_name |-> process_name, gpu_index |-> gpu_index,
      gpu_usage_percent |-> gpu_usage_percent ]

\* get_process_name(pid): comm, else the part of cmdline after the last '/',
\* else ""
AfterLastSlash(str) ==
    IF \E i \in 1 .. Len(str) : str[i] = "/"
    THEN LET last == CHOOSE i \in 1 .. Len(str) :
                         str[i] = "/" /\ \A j \in (i + 1) .. Len(str) : str[j] # "/"
         IN  SubSeq(str, last + 1, Len(str))
    ELSE str

get_process_name(table, pid) ==
    IF pid \notin DOMAIN table THEN <<>>
    ELSE IF table[pid].comm # <<>> THEN table[pid].comm
         ELSE AfterLastSlash(table[pid].cmdline)

\* the sampling call that fills the buffer whatever it returns
NvProcessUtilization_FillsOnFailure(dev, cursor, phase) ==
    [ret |-> dev.util_ret[phase],
     samples |-> SelectSeq(dev.samples, LAMBDA x : x.timeStamp > cursor)]

\* nvmlDeviceGetProcessUtilization(device, buffer, &count, lastSeenTimeStamp),
\* the phase-th call on the device: on success the samples newer than the
\* cursor; otherwise nothing is written to the zero-initialised buffer
NvProcessUtilization(dev, cursor, phase) ==
    IF dev.util_ret[phase] = "SUCCESS"
    THEN [ret |-> "SUCCESS", samples |-> SelectSeq(dev.samples, LAMBDA x : x.timeStamp > cursor)]
    ELSE [ret |-> dev.util_ret[phase], samples |-> <<>>]

\* pidToUtil.count(pid) ? pidToUtil[pid] : 0.0f, the map being filled from the
\* samples in order (a later sample of a pid overwrites an earlier one)
RECURSIVE PidToUtil(_, _)
PidToUtil(samples, pid) ==
    IF samples = <<>> THEN 0
    ELSE IF samples[Len(samples)].pid = pid THEN samples[Len(samples)].smUtil
         ELSE PidToUtil(SubSeq(samples, 1, Len(samples) - 1), pid)

\* the compute loop of get_process_info_for_device: one entry per list
\* element; gpu_index is not assigned there
ComputeEntries(dev, table, samples, garbage) ==
    IF "compute" \in dev.failing THEN <<>>
    ELSE [ k \in 1 .. Len(dev.compute) |->
             GPUProcessInfo(dev.compute[k], get_process_name(table, dev.compute[k]),
                            garbage, PidToUtil(samples, dev.compute[k])) ]

\* the graphics loop without the search of result: every element is appended
RECURSIVE GraphicsMerged_NoSearch(_, _, _, _, _)
GraphicsMerged_NoSearch(result, graphics, table, samples, garbage) ==
    IF graphics = <<>> THEN result
    ELSE GraphicsMerged_NoSearch(
             Append(result,
                    GPUProcessInfo(Head(graphics), get_process_name(table, Head(graphics)),
                                   garbage, PidToUtil(samples, Head(graphics)))),
             Tail(graphics), table, samples, garbage)

\* the graphics loop: an element is appended unless its pid is in result already
RECURSIVE GraphicsMerged(_, _, _, _, _)
GraphicsMerged(result, graphics, table, samples, garbage) ==
    IF graphics = <<>> THEN result
    ELSE LET p == Head(graphics)
             found == \E k \in 1 .. Len(result) : result[k].pid = p
             next == IF found THEN result
                     ELSE Append(result,
                            GPUProcessInfo(p, get_process_name(table, p), garbage,
                                           PidToUtil(samples, p)))
         IN  GraphicsMerged(next, Tail(graphics), table, samples, garbage)

\* if (sampleCount > 0) lastSeenTimeStamp = samples[0].timeStamp: the cursor of
\* the second sampling call, first being what the first call (cursor 0) gave;
\* a buffer the call left alone holds timeStamp 0
SecondCursor(first) ==
    IF first.samples # <<>> THEN first.samples[1].timeStamp ELSE 0

\* get_process_info_for_device(device): first sampling call with cursor 0, the
\* cursor taken from samples[0], the second call, then the two lists merged
get_process_info_for_device(dev, table, garbage) ==
    LET first  == NvProcessUtilization(dev, 0, 1)
        cursor == SecondCursor(first)
        second == NvProcessUtilization(dev, cursor, 2)
    IN  GraphicsMerged(ComputeEntries(dev, table, second.samples, garbage),
                       IF "graphics" \in dev.failing THEN <<>> ELSE dev.graphics,
                       table, second.samples, garbage)

\* one GPUInfo of get_gpu_info() whose index is whatever the member held
DeviceInfo_IndexNotSet(i, dev, table, garbage) ==
    [ index               |-> garbage,
      name                |-> IF "name" \in dev.failing THEN "" ELSE "NVIDIA",
      total_memory_mb     |-> IF "memory" \in dev.failing THEN garbage ELSE 8000 + i,
      used_memory_mb      |-> IF "memory" \in dev.failing THEN garbage ELSE 100 + i,
      temperature_celsius |-> IF "temperature" \in dev.failing THEN garbage ELSE 50 + i,
      utilization_percent |-> IF "utilization" \in dev.failing THEN garbage ELSE 10 + i,
      processes           |-> get_process_info_for_device(dev, table, garbage) ]

\* one GPUInfo of get_gpu_info(): the fields of failed sub-queries keep what
\* the uninitialised members held (garbage); name is a std::string, empty
DeviceInfo(i, dev, table, garbage) ==
    [ index               |-> i,
      name                |-> IF "name" \in dev.failing THEN "" ELSE "NVIDIA",
      total_memory_mb     |-> IF "memory" \in dev.failing THEN garbage ELSE 8000 + i,
      used_memory_mb      |-> IF "memory" \in dev.failing THEN garbage ELSE 100 + i,
      temperature_celsius |-> IF "temperature" \in dev.failing THEN garbage ELSE 50 + i,
      utilization_percent |-> IF "utilization" \in dev.failing THEN garbage ELSE 10 + i,
      processes           |-> get_process_info_for_device(dev, table, garbage) ]

\* the device loop of get_gpu_info(): devices whose handle cannot be acquired
\* are skipped
RECURSIVE NvDeviceLoop(_, _, _, _)
NvDeviceLoop(devs, n, table, garbage) ==
    IF n = 0 THEN <<>>
    ELSE LET rest == NvDeviceLoop(devs, n - 1, table, garbage)
         IN  IF devs[n].handle_ok
             THEN Append(rest, DeviceInfo(n - 1, devs[n], table, garbage))
             ELSE rest

\* the entry points a walk over the devices goes through: the count, the
\* handles, and perDevice for every device whose handle is acquired
NvWalkCalls(hw, perDevice) ==
    {"nvmlDeviceGetCount_v2"}
    \cup (IF hw.count_ok /\ Len(hw.devs) > 0 THEN {"nvmlDeviceGetHandleByIndex_v2"} ELSE {})
    \cup (IF hw.count_ok /\ \E k \in 1 .. Len(hw.devs) : hw.devs[k].handle_ok
          THEN perDevice ELSE {})

NvListCalls(hw) ==
    NvWalkCalls(hw, { "nvmlDeviceGetName", "nvmlDeviceGetMemoryInfo",
                      "nvmlDeviceGetTemperature", "nvmlDeviceGetUtilizationRates",
                      "nvmlDeviceGetProcessUtilization",
                      "nvmlDeviceGetComputeRunningProcesses",
                      "nvmlDeviceGetGraphicsRunningProcesses" })

\* get_gpu_info() that enumerates without looking at initialized_
NvGetGpuInfoResult_NoGuard(obj, hw, table, garbage) ==
    IF hw.count_ok
    THEN Returned(NvDeviceLoop(hw.devs, Len(hw.devs), table, garbage), NvListCalls(hw))
    ELSE Returned(<<>>, NvListCalls(hw))

\* NvidiaGPUDetector::get_gpu_info()
NvGetGpuInfoResult(obj, hw, table, garbage) ==
    IF ~obj.initialized_ THEN Returned(<<>>, {})
    ELSE IF ~(NvListCalls(hw) \subseteq obj.ptrs) THEN NullCall(NvListCalls(hw))
    ELSE IF hw.count_ok
         THEN Returned(NvDeviceLoop(hw.devs, Len(hw.devs), table, garbage), NvListCalls(hw))
         ELSE Returned(<<>>, NvListCalls(hw))

\* the first element of a GPUInfo sequence with the given index, as an optional
FirstWithIndex(infos, gpu_index) ==
    IF \E k \in 1 .. Len(infos) : infos[k].index = gpu_index
    THEN Some(infos[CHOOSE k \in 1 .. Len(infos) :
                       /\ infos[k].index = gpu_index
                       /\ \A j \in 1 .. (k - 1) : infos[j].index # gpu_index])
    ELSE Nullopt

\* NvidiaGPUDetector::get_gpu_info(uint32_t)
NvGetGpuInfoIdxResult(obj, hw, table, gpu_index, garbage) ==
    LET all_gpus == NvGetGpuInfoResult(obj, hw, table, garbage)
    IN  IF all_gpus.outcome = "returned"
        THEN Returned(FirstWithIndex(all_gpus.value, gpu_index), all_gpus.calls)
        ELSE all_gpus

\* one process loop of the by-name query: the elements whose name contains
\* process_name are appended; the graphics loop (dedupe) skips the pids that
\* are in result already
RECURSIVE NvNameMatches(_, _, _, _, _, _, _)
NvNameMatches(result, list, table, name, i, garbage, dedupe) ==
    IF list = <<>> THEN result
    ELSE LET p == Head(list)
             current_name == get_process_name(table, p)
             already_added == dedupe /\ \E k \in 1 .. Len(result) : result[k].pid = p
             next == IF ~already_added /\ Contains(current_name, name)
                     THEN Append(result, GPUProcessInfo(p, current_name, i, garbage))
                     ELSE result
         IN  NvNameMatches(next, Tail(list), table, name, i, garbage, dedupe)

\* the smUtil of the first sample of pid, else what the member held
FirstSampleUtil(samples, pid, held) ==
    IF \E s \in 1 .. Len(samples) : samples[s].pid = pid
    THEN samples[CHOOSE s \in 1 .. Len(samples) :
                    /\ samples[s].pid = pid
                    /\ \A j \in 1 .. (s - 1) : samples[j].pid # pid].smUtil
    ELSE held

\* the body of the by-name device loop for device i: compute matches, graphics
\* matches, then the utilization of every process found so far
NvByNameDevice(result, i, dev, table, name, garbage, obj) ==
    LET c == IF "compute" \in dev.failing THEN result
             ELSE NvNameMatches(result, dev.compute, table, name, i, garbage, FALSE)
        g == IF "graphics" \in dev.failing THEN c
             ELSE NvNameMatches(c, dev.graphics, table, name, i, garbage, TRUE)
        u == NvProcessUtilization(dev, 0, 1)
    IN  IF g # <<>> /\ "nvmlDeviceGetProcessUtilization" \in obj.ptrs /\ u.ret = "SUCCESS"
        THEN [ k \in 1 .. Len(g) |->
                 [g[k] EXCEPT !.gpu_usage_percent = FirstSampleUtil(u.samples, g[k].pid, @)] ]
        ELSE g

RECURSIVE NvByNameLoop(_, _, _, _, _, _)
NvByNameLoop(devs, n, table, name, garbage, obj) ==
    IF n = 0 THEN <<>>
    ELSE LET rest == NvByNameLoop(devs, n - 1, table, name, garbage, obj)
         IN  IF devs[n].handle_ok
             THEN NvByNameDevice(rest, n - 1, devs[n], table, name, garbage, obj)
             ELSE rest

NvProcCalls(hw) ==
    NvWalkCalls(hw, { "nvmlDeviceGetComputeRunningProcesses",
                      "nvmlDeviceGetGraphicsRunningProcesses" })

\* NvidiaGPUDetector::get_process_info(const std::string&)
NvByNameResult(obj, hw, table, name, garbage) ==
    IF ~obj.initialized_ THEN Returned(Nullopt, {})
    ELSE IF ~(NvProcCalls(hw) \subseteq obj.ptrs) THEN NullCall(NvProcCalls(hw))
    ELSE Returned(OptionalOfVector(
                      IF hw.count_ok
                      THEN NvByNameLoop(hw.devs, Len(hw.devs), table, name, garbage, obj)
                      ELSE <<>>),
                  NvProcCalls(hw))

\* get_all_processes(): the per-device lists with gpu_index set, concatenated
RECURSIVE get_all_processes(_, _, _, _)
get_all_processes(devs, n, table, garbage) ==
    IF n = 0 THEN <<>>
    ELSE LET rest == get_all_processes(devs, n - 1, table, garbage)
             device_processes == get_process_info_for_device(devs[n], table, garbage)
         IN  IF devs[n].handle_ok
             THEN rest \o [ k \in 1 .. Len(device_processes) |->
                              [device_processes[k] EXCEPT !.gpu_index = n - 1] ]
             ELSE rest

NvAllCalls(hw) ==
    NvWalkCalls(hw, { "nvmlDeviceGetProcessUtilization",
                      "nvmlDeviceGetComputeRunningProcesses",
                      "nvmlDeviceGetGraphicsRunningProcesses" })

\* NvidiaGPUDetector::get_process_info(uint32_t)
NvByPidResult(obj, hw, table, pid, garbage) ==
    IF ~obj.initialized_ THEN Returned(Nullopt, {})
    ELSE IF ~(NvAllCalls(hw) \subseteq obj.ptrs) THEN NullCall(NvAllCalls(hw))
    ELSE Returned(OptionalOfVector(
                      SelectSeq(IF hw.count_ok
                                THEN get_all_processes(hw.devs, Len(hw.devs), table, garbage)
                                ELSE <<>>,
                                LAMBDA proc : proc.pid = pid)),
                  NvAllCalls(hw))

----------------------------------------------------------------------------
(* The Filesystem Vendor Backend: AMDGPUDetector over /sys/class/drm.      *)

\* one /sys/class/drm/card<n>: the content of device/vendor ("" when the file
\* is missing), device/hwmon ("ok": holds a directory with temp1_input,
\* "empty": holds no directory, "missing": does not exist), and whether the
\* device/ attribute files can be read
AmdCard(n, vendor, hwmon, files) ==
    [n |-> n, vendor |-> vendor, hwmon |-> hwmon, files |-> files]

\* the object before its constructor has run
AmdUnloaded == [phase |-> "Unloaded", initialized_ |-> FALSE, gpu_paths_ |-> <<>>]

\* is_amd_gpu(path): device/vendor contains "0x1002"
is_amd_gpu(card) == card.vendor = "0x1002"

\* AMDGPUDetector::AMDGPUDetector(): the cards of vendor 0x1002 in directory
\* order; an unreadable /sys/class/drm throws and the exception is caught
AmdConstructed(hw) ==
    LET paths == IF hw.readable
                 THEN SelectSeq([k \in 1 .. Len(hw.entries) |-> hw.entries[k]], is_amd_gpu)
                 ELSE <<>>
    IN  [ phase        |-> IF paths # <<>> THEN "Initialized" ELSE "Unavailable",
          initialized_ |-> paths # <<>>,
          gpu_paths_   |-> [k \in 1 .. Len(paths) |-> paths[k].n] ]

\* AMDGPUDetector::is_available()
AmdIsAvailableResult(obj) == obj.initialized_

\* what is under /sys/class/drm/card<n> now; a path that is gone has no files
AmdCardAt(hw, n) ==
    IF hw.readable /\ \E k \in 1 .. Len(hw.entries) : hw.entries[k].n = n
    THEN hw.entries[CHOOSE k \in 1 .. Len(hw.entries) : hw.entries[k].n = n]
    ELSE AmdCard(n, "", "missing", FALSE)

\* one GPUInfo of AMDGPUDetector::get_gpu_info(): index from the digits after
\* "card", name from product_name or "AMD GPU <index>", the other members
\* assigned only when their file has content
AmdDeviceInfo(n, card, garbage) ==
    [ index               |-> n,
      name                |-> IF card.files THEN "AMD" ELSE "AMD GPU",
      total_memory_mb     |-> IF card.files THEN 4000 + n ELSE garbage,
      used_memory_mb      |-> IF card.files THEN 200 + n ELSE garbage,
      temperature_celsius |-> IF card.hwmon = "ok" THEN 40 + n ELSE garbage,
      utilization_percent |-> IF card.files THEN 20 + n ELSE garbage,
      processes           |-> <<>> ]

\* AMDGPUDetector::get_gpu_info(); find_hwmon_dir iterates device/hwmon and
\* throws std::filesystem::filesystem_error when it does not exist
AmdGetGpuInfoResult(obj, hw, garbage) ==
    IF ~obj.initialized_ THEN Returned(<<>>, {})
    ELSE IF \E k \in 1 .. Len(obj.gpu_paths_) : AmdCardAt(hw, obj.gpu_paths_[k]).hwmon = "missing"
         THEN Threw
         ELSE Returned([ k \in 1 .. Len(obj.gpu_paths_) |->
                           AmdDeviceInfo(obj.gpu_paths_[k], AmdCardAt(hw, obj.gpu_paths_[k]), garbage) ],
                       {})

\* AMDGPUDetector::get_gpu_info(uint32_t)
AmdGetGpuInfoIdxResult(obj, hw, gpu_index, garbage) ==
    LET all_gpus == AmdGetGpuInfoResult(obj, hw, garbage)
    IN  IF all_gpus.outcome = "returned"
        THEN Returned(FirstWithIndex(all_gpus.value, gpu_index), {})
        ELSE all_gpus

\* the by-name test of AMDGPUDetector: comm, then cmdline, then whether maps
\* or fd of the process refer to a DRM device node
AmdKeeps(table, name, pid) ==
    /\ \/ table[pid].comm # <<>> /\ Contains(table[pid].comm, name)
       \/ table[pid].cmdline # <<>> /\ Contains(table[pid].cmdline, name)
    /\ table[pid].dri
    /\ ~table[pid].gone

\* the GPUProcessInfo of a kept process: the node is a render node, which
\* matches no card name, so gpu_index and gpu_usage_percent are not assigned
AmdProcessInfos(scanned, garbage) ==
    [ k \in 1 .. Len(scanned) |->
        GPUProcessInfo(scanned[k].pid, scanned[k].process_name, garbage, garbage) ]

\* AMDGPUDetector::get_process_info(const std::string&)
AmdByNameResult(obj, table, name, garbage) ==
    IF ~obj.initialized_ THEN Returned(Nullopt, {})
    ELSE LET keeps == {pid \in Pids : AmdKeeps(table, name, pid)}
         IN  Returned(OptionalOfVector(AmdProcessInfos(ScanProc(table, keeps, MaxPid), garbage)), {})

\* AMDGPUDetector::get_process_info(uint32_t): the by-name query with the
\* content of /proc/<pid>/comm
AmdByPidResult(obj, table, pid, garbage) ==
    IF pid \in DOMAIN table /\ table[pid].listed
    THEN AmdByNameResult(obj, table, table[pid].comm, garbage)
    ELSE Returned(Nullopt, {})

----------------------------------------------------------------------------
(* The Aggregator: GPUDetector over its retained backends.                 *)

Backends == {"nvidia", "amd"}

\* the singleton before its first use
AggUnbuilt ==
    [ phase |-> "Unbuilt", implementations_ |-> <<>>,
      probes |-> [b \in Backends |-> 0], probe_result |-> [b \in Backends |-> FALSE],
      queried |-> {} ]

\* the elements of an optional vector: none when it is nullopt
OptionalItems(v) == IF v.has_value THEN v.value ELSE <<>>

\* the loop over implementations_ of the queries that concatenate: every
\* backend in order, until one does not return; ask[b] is the backend's
\* answer; optional: the answers are optionals whose vectors are merged
RECURSIVE AggLoop(_, _, _, _)
AggLoop(impls, n, ask, optional) ==
    IF n = 0 THEN [outcome |-> "returned", value |-> <<>>, asked |-> <<>>]
    ELSE LET before == AggLoop(impls, n - 1, ask, optional)
             r == ask[impls[n]]
             Items(v) == IF optional THEN OptionalItems(v) ELSE v
         IN  IF before.outcome # "returned" THEN before
             ELSE IF r.outcome # "returned"
                  THEN [outcome |-> r.outcome, value |-> <<>>,
                        asked |-> Append(before.asked, impls[n])]
                  ELSE [outcome |-> "returned", value |-> before.value \o Items(r.value),
                        asked |-> Append(before.asked, impls[n])]

\* GPUDetector::get_gpu_info() that lists every backend but the last
AggGetGpuInfoResult_DropsLast(impls, ask) ==
    AggLoop(impls, IF Len(impls) > 1 THEN Len(impls) - 1 ELSE Len(impls), ask, FALSE)

\* GPUDetector::get_gpu_info()
AggGetGpuInfoResult(impls, ask) == AggLoop(impls, Len(impls), ask, FALSE)

\* the return of the process queries when the merged vector is always wrapped
AggOptional_AlwaysPresent(merged) ==
    IF merged.outcome = "returned"
    THEN [merged EXCEPT !.value = Some(@)]
    ELSE merged

\* result.empty() ? std::nullopt : std::make_optional(result)
AggOptional(merged) ==
    IF merged.outcome = "returned"
    THEN [merged EXCEPT !.value = OptionalOfVector(@)]
    ELSE merged

\* GPUDetector::get_process_info(const std::string&) and (uint32_t)
AggProcessInfoResult(impls, ask) ==
    AggOptional(AggLoop(impls, Len(impls), ask, TRUE))

\* GPUDetector::get_gpu_info(uint32_t): the first backend with a hit answers
RECURSIVE AggIdxLoop(_, _, _)
AggIdxLoop(impls, k, ask) ==
    IF k > Len(impls) THEN [outcome |-> "returned", value |-> Nullopt, asked |-> <<>>]
    ELSE LET r == ask[impls[k]]
             rest == AggIdxLoop(impls, k + 1, ask)
         IN  IF r.outcome # "returned"
             THEN [outcome |-> r.outcome, value |-> <<>>, asked |-> <<impls[k]>>]
             ELSE IF r.value.has_value
                  THEN [outcome |-> "returned", value |-> r.value, asked |-> <<impls[k]>>]
                  ELSE [rest EXCEPT !.asked = <<impls[k]>> \o @]

AggGetGpuInfoIdxResult(impls, ask) == AggIdxLoop(impls, 1, ask)

\* no NvidiaGPUDetector yet
NvIdle ==
    /\ nv = NvUnloaded
    /\ nv_last = [op |-> "none", arg |-> 0, result |-> Returned(<<>>, {})]

\* no /sys/class/drm
NoDrm == [readable |-> FALSE, entries |-> <<>>]

\* no AMDGPUDetector and no GPUDetector yet
NoListCall == [valid |-> FALSE]

AggIdle ==
    /\ amd = AmdUnloaded
    /\ agg = AggUnbuilt
    /\ agg_last = [op |-> "none"]
    /\ list_hist = [prev |-> NoListCall, cur |-> NoListCall]

NoGpu ==
    /\ nv_env = [marker |-> FALSE, libs |-> {}, syms |-> {}, init_rets |-> <<"FAIL", "FAIL">>]
    /\ nv_hw = [count_ok |-> FALSE, devs |-> <<>>]
    /\ amd_hw = NoDrm
    /\ NvIdle
    /\ AggIdle

(* A NvidiaGPUDetector used on its own.                                    *)

\* the constructor, first part
NvCtorProbe ==
    /\ nv.phase = "Unloaded"
    /\ nv' = NvProbed(nv, nv_env)
    /\ UNCHANGED <<nv_env, nv_hw, nv_last, notNv>>

\* the constructor, second part
NvCtorInit ==
    /\ nv.phase = "Probing"
    /\ nv' = NvInitialized(nv, nv_env)
    /\ UNCHANGED <<nv_env, nv_hw, nv_last, notNv>>

\* the object exists and its constructor has returned
NvAlive == nv.phase \in {"Unavailable", "Initialized"}

\* a query that clears the library handle of the object it is called on
AfterQuery_ClearsHandle(obj) == [obj EXCEPT !.nvml_handle_ = 0]

\* the members after a query: the five queries are const member functions
\* and none of them writes initialized_, nvml_handle_ or a function pointer
AfterQuery(obj) == obj

NvIsAvailable ==
    /\ NvAlive
    /\ nv_last' = [op |-> "is_available", arg |-> 0,
                   result |-> Returned(NvIsAvailableResult(nv), {})]
    /\ nv' = AfterQuery(nv)
    /\ UNCHANGED <<nv_env, nv_hw, notNv>>

NvGetGpuInfo ==
    /\ NvAlive
    /\ \E g \in GarbageValues :
          nv_last' = [op |-> "get_gpu_info", arg |-> 0,
                      result |-> NvGetGpuInfoResult(nv, nv_hw, procs, g)]
    /\ nv' = AfterQuery(nv)
    /\ UNCHANGED <<nv_env, nv_hw, notNv>>

NvGetGpuInfoIdx ==
    /\ NvAlive
    /\ \E g \in GarbageValues, gpu_index \in {0, 1, 7} :
          nv_last' = [op |-> "get_gpu_info_idx", arg |-> gpu_index,
                      result |-> NvGetGpuInfoIdxResult(nv, nv_hw, procs, gpu_index, g)]
    /\ nv' = AfterQuery(nv)
    /\ UNCHANGED <<nv_env, nv_hw, notNv>>

NvProcByName ==
    /\ NvAlive
    /\ \E g \in GarbageValues, name \in QueryNames :
          nv_last' = [op |-> "by_name", arg |-> name,
                      result |-> NvByNameResult(nv, nv_hw, procs, name, g)]
    /\ nv' = AfterQuery(nv)
    /\ UNCHANGED <<nv_env, nv_hw, notNv>>

NvProcByPid ==
    /\ NvAlive
    /\ \E g \in GarbageValues, pid \in Pids :
          nv_last' = [op |-> "by_pid", arg |-> pid,
                      result |-> NvByPidResult(nv, nv_hw, procs, pid, g)]
    /\ nv' = AfterQuery(nv)
    /\ UNCHANGED <<nv_env, nv_hw, notNv>>

NvDtor ==
    /\ NvAlive
    /\ nv' = NvDestroyed(nv)
    /\ UNCHANGED <<nv_env, nv_hw, nv_last, notNv>>

\* the environments a constructor can meet
NvEnvs ==
    [ marker    : BOOLEAN,
      libs      : {{}, {1}, {2, NumLibNames}, {NumLibNames}},
      syms      : { NvSymbols, NvSymbols \ {"nvmlInit_v2"}, NvSymbols \ {"nvmlShutdown"},
                    NvSymbols \ {"nvmlDeviceGetCount_v2"},
                    NvSymbols \ {"nvmlDeviceGetProcessUtilization"} },
      init_rets : {<<"SUCCESS", "SUCCESS">>, <<"SUCCESS", "FAIL">>, <<"FAIL", "SUCCESS">>} ]

\* the utilization samples of a device
Samples ==
    << [pid |-> 1, timeStamp |-> 5, smUtil |-> 30],
       [pid |-> 1, timeStamp |-> 9, smUtil |-> 40],
       [pid |-> 2, timeStamp |-> 9, smUtil |-> 50] >>

\* what NVML can answer
NvHws ==
    { [count_ok |-> FALSE, devs |-> << NvDevice(TRUE, {}, <<1>>, <<>>, <<"SUCCESS", "SUCCESS">>, Samples) >>],
      [count_ok |-> TRUE, devs |-> <<>>],
      [count_ok |-> TRUE,
       devs |-> << NvDevice(TRUE, {}, <<1>>, <<1, 2>>, <<"SUCCESS", "SUCCESS">>, Samples) >>],
      [count_ok |-> TRUE,
       devs |-> << NvDevice(FALSE, {}, <<>>, <<>>, <<"SUCCESS", "SUCCESS">>, <<>>),
                   NvDevice(TRUE, {"memory", "compute"}, <<1>>, <<2>>, <<"NOT_SUPPORTED", "NOT_SUPPORTED">>, <<>>) >>],
      [count_ok |-> TRUE,
       devs |-> << NvDevice(TRUE, {}, <<2>>, <<>>, <<"SUCCESS", "SUCCESS">>, Samples),
                   NvDevice(TRUE, {"temperature"}, <<>>, <<2, 1>>, <<"SUCCESS", "SUCCESS">>, <<>>) >>] }

\* the return codes of the sampling call
UtilRets == {"SUCCESS", "NOT_SUPPORTED", "NO_PERMISSION"}

\* one device with processes and samples whose sampling call fails in the
\* first phase, the second phase, or both
NvSamplingHws ==
    { [count_ok |-> TRUE,
       devs |-> << NvDevice(TRUE, {}, <<1>>, <<1, 2>>, rets, Samples) >>] :
        rets \in (UtilRets \X UtilRets) \ {<<"SUCCESS", "SUCCESS">>} }

\* the process lists NVML can hand out for a device: pids in any order, a
\* pid in both lists, a pid repeated within a list
ComputeLists == { <<>>, <<1>>, <<2, 1>>, <<1, 1>> }
GraphicsLists == { <<>>, <<2>>, <<1, 2>>, <<2, 2>> }

\* one device with every pair of process lists
NvListHws ==
    { [count_ok |-> TRUE,
       devs |-> << NvDevice(TRUE, {}, compute, graphics,
                            <<"SUCCESS", "SUCCESS">>, Samples) >>] :
        compute \in ComputeLists, graphics \in GraphicsLists }

NvInit ==
    /\ NetIdle /\ StoIdle /\ CpuIdle /\ PqIdle /\ PtIdle /\ NoProcs /\ AggIdle
    /\ amd_hw = NoDrm
    /\ nv_env \in NvEnvs
    /\ nv_hw \in NvHws \cup NvSamplingHws \cup NvListHws
    /\ NvIdle

NvNext ==
    \/ NvCtorProbe
    \/ NvCtorInit
    \/ NvIsAvailable
    \/ NvGetGpuInfo
    \/ NvGetGpuInfoIdx
    \/ NvProcByName
    \/ NvProcByPid
    \/ NvDtor

SpecNv == NvInit /\ [][NvNext]_vars

----------------------------------------------------------------------------
(* GPUDetector::instance() and the queries made on it.                     *)

\* implementations_.push_back(std::move(impl)) whatever the probe said
Retain_Always(impls, b, available) == Append(impls, b)

\* if (impl->is_available()) implementations_.push_back(std::move(impl))
Retain(impls, b, available) == IF available THEN Append(impls, b) ELSE impls

Range(seq) == {seq[k] : k \in 1 .. Len(seq)}

\* GPUDetector::GPUDetector(): each backend constructed, probed once, and
\* kept or destroyed
AggCtor ==
    /\ agg.phase = "Unbuilt"
    /\ LET nvidia_impl == NvConstructed(nv_env)
           amd_impl == AmdConstructed(amd_hw)
           nv_ok == NvIsAvailableResult(nvidia_impl)
           amd_ok == AmdIsAvailableResult(amd_impl)
           impls == Retain(Retain(<<>>, "nvidia", nv_ok), "amd", amd_ok)
       IN  IF nvidia_impl.phase = "Crashed"
           THEN /\ nv' = nvidia_impl
                /\ agg' = [agg EXCEPT !.phase = "Crashed"]
                /\ amd' = amd
           ELSE /\ nv' = IF "nvidia" \in Range(impls) THEN nvidia_impl
                         ELSE NvDestroyed(nvidia_impl)
                /\ amd' = IF "amd" \in Range(impls) THEN amd_impl
                          ELSE [amd_impl EXCEPT !.phase = "Destroyed"]
                /\ agg' = [ phase |-> "Built", implementations_ |-> impls,
                            probes |-> [b \in Backends |-> 1],
                            probe_result |-> [b \in Backends |->
                                                IF b = "nvidia" THEN nv_ok ELSE amd_ok],
                            queried |-> {} ]
    /\ UNCHANGED <<nv_env, nv_hw, nv_last, amd_hw, agg_last, list_hist, notGpu>>

\* what the call leaves of the GPUDetector: the backends it went to are
\* recorded; a call through a null function pointer ends the program
AfterCall(r) ==
    [agg EXCEPT !.queried = @ \cup Range(r.asked),
                !.phase = IF r.outcome = "crashed" THEN "Crashed" ELSE @]

\* the record of a call: the answer of every backend it went to, and its own
CallRecord(op, arg, r, ask) ==
    [ op |-> op, arg |-> arg, result |-> r,
      parts |-> [b \in Range(r.asked) |-> ask[b]] ]

AggGetGpuInfo ==
    /\ agg.phase = "Built"
    /\ \E g \in GarbageValues :
          LET ask == [b \in Backends |->
                          IF b = "nvidia" THEN NvGetGpuInfoResult(nv, nv_hw, procs, g)
                          ELSE AmdGetGpuInfoResult(amd, amd_hw, g)]
              r == AggGetGpuInfoResult(agg.implementations_, ask)
          IN  /\ agg_last' = CallRecord("get_gpu_info", 0, r, ask)
              /\ list_hist' = [ prev |-> list_hist.cur,
                                cur  |-> [ valid |-> TRUE, result |-> r,
                                           parts |-> [b \in Range(r.asked) |-> ask[b]] ] ]
              /\ agg' = AfterCall(r)
    /\ UNCHANGED <<nvVars, amd_hw, amd, notGpu>>

\* the gpu_index arguments
GpuIndexes == {0, 1, 7}

AggGetGpuInfoIdx ==
    /\ agg.phase = "Built"
    /\ \E g \in GarbageValues, gpu_index \in GpuIndexes :
          LET ask == [b \in Backends |->
                          IF b = "nvidia" THEN NvGetGpuInfoIdxResult(nv, nv_hw, procs, gpu_index, g)
                          ELSE AmdGetGpuInfoIdxResult(amd, amd_hw, gpu_index, g)]
              r == AggGetGpuInfoIdxResult(agg.implementations_, ask)
          IN  /\ agg_last' = CallRecord("get_gpu_info_idx", gpu_index, r, ask)
              /\ agg' = AfterCall(r)
    /\ UNCHANGED <<nvVars, amd_hw, amd, list_hist, notGpu>>

AggProcByName ==
    /\ agg.phase = "Built"
    /\ \E g \in GarbageValues, name \in QueryNames :
          LET ask == [b \in Backends |->
                          IF b = "nvidia" THEN NvByNameResult(nv, nv_hw, procs, name, g)
                          ELSE AmdByNameResult(amd, procs, name, g)]
              r == AggProcessInfoResult(agg.implementations_, ask)
          IN  /\ agg_last' = CallRecord("by_name", name, r, ask)
              /\ agg' = AfterCall(r)
    /\ UNCHANGED <<nvVars, amd_hw, amd, list_hist, notGpu>>

AggProcByPid ==
    /\ agg.phase = "Built"
    /\ \E g \in GarbageValues, pid \in Pids :
          LET ask == [b \in Backends |->
                          IF b = "nvidia" THEN NvByPidResult(nv, nv_hw, procs, pid, g)
                          ELSE AmdByPidResult(amd, procs, pid, g)]
              r == AggProcessInfoResult(agg.implementations_, ask)
          IN  /\ agg_last' = CallRecord("by_pid", pid, r, ask)
              /\ agg' = AfterCall(r)
    /\ UNCHANGED <<nvVars, amd_hw, amd, list_hist, notGpu>>

\* the hardware changes under the running program: NVML stops or resumes
\* answering the device count, or the first DRM card goes away
HwChange ==
    /\ agg.phase = "Built"
    /\ \/ /\ nv_hw' = [nv_hw EXCEPT !.count_ok = ~@]
          /\ amd_hw' = amd_hw
       \/ /\ amd_hw.entries # <<>>
          /\ amd_hw' = [amd_hw EXCEPT !.entries = Tail(@)]
          /\ nv_hw' = nv_hw
    /\ list_hist' = [prev |-> NoListCall, cur |-> NoListCall]
    /\ UNCHANGED <<nv_env, nv, nv_last, amd, agg, agg_last, notGpu>>

\* the environments the GPUDetector is built in
AggNvEnvs ==
    { [marker |-> FALSE, libs |-> {1}, syms |-> NvSymbols, init_rets |-> <<"SUCCESS", "SUCCESS">>],
      [marker |-> TRUE, libs |-> {}, syms |-> NvSymbols, init_rets |-> <<"SUCCESS", "SUCCESS">>],
      [marker |-> TRUE, libs |-> {1}, syms |-> NvSymbols, init_rets |-> <<"SUCCESS", "FAIL">>],
      [marker |-> TRUE, libs |-> {2, 4}, syms |-> NvSymbols, init_rets |-> <<"SUCCESS", "SUCCESS">>],
      [marker |-> TRUE, libs |-> {1}, syms |-> NvSymbols \ {"nvmlDeviceGetName"},
       init_rets |-> <<"SUCCESS", "SUCCESS">>] }

AmdHws ==
    { [readable |-> FALSE, entries |-> <<>>],
      [readable |-> TRUE, entries |-> <<>>],
      [readable |-> TRUE, entries |-> << AmdCard(0, "0x1002", "ok", TRUE) >>],
      [readable |-> TRUE, entries |-> << AmdCard(1, "0x1002", "ok", FALSE),
                                         AmdCard(0, "0x8086", "ok", TRUE) >>],
      [readable |-> TRUE, entries |-> << AmdCard(1, "0x1002", "empty", TRUE),
                                         AmdCard(0, "0x1002", "ok", TRUE) >>],
      [readable |-> TRUE, entries |-> << AmdCard(0, "0x1002", "missing", TRUE) >>] }

\* the processes that hold a GPU
GpuProcEntries ==
    { Absent,
      Proc(<<"c", "h">>, <<"/", "c", "h">>, TRUE, FALSE),
      Proc(<<"x">>, <<"x", "c", "h">>, TRUE, FALSE),
      Proc(<<>>, <<"/", "c", "h">>, FALSE, FALSE),
      Proc(<<"C", "h">>, <<"/", "C", "h">>, TRUE, TRUE) }

\* /proc with pid 1 and pid 2 as given; no other process
ProcTable(e1, e2) == [p \in Pids |-> IF p = 1 THEN e1 ELSE IF p = 2 THEN e2 ELSE Absent]

GpuProcTables ==
    { ProcTable(e[1], e[2]) :
        e \in GpuProcEntries \X {Absent, Proc(<<"c", "h">>, <<"/", "c", "h">>, TRUE, FALSE)} }

\* the GPUDetector over every environment and device population
AggInit ==
    /\ NetIdle /\ StoIdle /\ CpuIdle /\ PqIdle /\ PtIdle
    /\ procs \in { ProcTable(Absent, Absent),
                   ProcTable(Proc(<<"c", "h">>, <<"/", "c", "h">>, TRUE, FALSE),
                             Proc(<<"x">>, <<"x", "c", "h">>, TRUE, FALSE)) }
    /\ nv_env \in AggNvEnvs
    /\ nv_hw \in NvHws
    /\ amd_hw \in AmdHws
    /\ NvIdle
    /\ AggIdle

\* the GPUDetector over every process population
AggProcInit ==
    /\ NetIdle /\ StoIdle /\ CpuIdle /\ PqIdle /\ PtIdle
    /\ procs \in GpuProcTables
    /\ nv_env \in {e \in AggNvEnvs : e.syms = NvSymbols /\ e.marker /\ e.init_rets[2] = "SUCCESS"}
    /\ nv_hw \in {h \in NvHws : h.count_ok /\ Len(h.devs) > 0}
    /\ amd_hw \in {h \in AmdHws : h.readable /\ Len(h.entries) < 2}
    /\ NvIdle
    /\ AggIdle

AggNext ==
    \/ AggCtor
    \/ AggGetGpuInfo
    \/ AggGetGpuInfoIdx
    \/ AggProcByName
    \/ AggProcByPid
    \/ HwChange

SpecGpu == AggInit /\ [][AggNext]_vars

SpecGpuProc == AggProcInit /\ [][AggNext]_vars

----------------------------------------------------------------------------
(* Per-process CPU time: /proc/<pid>/stat and the process queries of       *)
(* CPUDetector.  pt_initial and pt_final are what the two calls of         *)
(* read_process_times() return; procs is /proc as the later reads find it. *)

\* sysconf(_SC_CLK_TCK)
ClkTck == 100

\* utime + stime of a process, in clock ticks
TickValues == {0, 5, 25}

\* read_process_times(): pid -> utime + stime, for the /proc/<pid> present
ProcessTimesMaps == UNION {[S -> TickValues] : S \in SUBSET Pids}

\* (time_diff * 100.0f) / (seconds * sysconf(_SC_CLK_TCK)), seconds = 0.1f:
\* the divisor 0.1f * 100 rounds to 10.0f
CpuUsagePercent(time_diff) == (time_diff * 100) \div (ClkTck \div 10)

\* get_process_cpu_info(pid, initial_times, final_times), which cannot fail:
\* comm is "" when it cannot be read, the usage is 0 unless both snapshots
\* hold the pid
get_process_cpu_info(table, pid, initial_times, final_times) ==
    [ pid               |-> pid,
      process_name      |-> table[pid].comm,
      cpu_usage_percent |->
          IF pid \in DOMAIN initial_times /\ pid \in DOMAIN final_times
          THEN CpuUsagePercent(USub(final_times[pid], initial_times[pid]))
          ELSE 0 ]

\* CPUDetector::get_process_info(uint32_t); exists: the entry check on
\* /proc/<pid>
CpuInfoByPidResult(table, pid, exists, initial_times, final_times) ==
    IF ~exists THEN Nullopt
    ELSE Some(get_process_cpu_info(table, pid, initial_times, final_times))

\* CPUDetector::get_process_info(const std::string&) with the CPUProcessInfo
\* of every kept process
CpuInfoByNameResult(table, name, initial_times, final_times) ==
    LET keeps == {pid \in Pids : CpuKeeps(table, name, pid)}
        scanned == ScanProc(table, keeps, MaxPid)
    IN  OptionalOfVector([ k \in 1 .. Len(scanned) |->
                             get_process_cpu_info(table, scanned[k].pid,
                                                  initial_times, final_times) ])

\* the loop of get_top_processes: one entry per pid of initial_times
TopEntries(table, initial_times, final_times) ==
    { get_process_cpu_info(table, pid, initial_times, final_times) :
        pid \in DOMAIN initial_times }

\* std::sort by descending cpu_usage_percent: every arrangement of the
\* entries that is in that order (equal entries in any order)
SortedByUsage(entries) ==
    { q \in [1 .. Cardinality(entries) -> entries] :
        /\ \A a, b \in 1 .. Cardinality(entries) : a # b => q[a] # q[b]
        /\ \A a \in 1 .. (Cardinality(entries) - 1) :
               q[a].cpu_usage_percent >= q[a + 1].cpu_usage_percent }

\* CPUDetector::get_top_processes(limit): the results it can return
TopProcessesResults(table, limit, initial_times, final_times) ==
    { SubSeq(q, 1, IF Len(q) > limit THEN limit ELSE Len(q)) :
        q \in SortedByUsage(TopEntries(table, initial_times, final_times)) }

\* the limit arguments
Limits == {1, 10}

CpuGetTopProcesses ==
    /\ \E limit \in Limits :
          /\ pt_call' = [op |-> "top", arg |-> limit]
          /\ pt_result' \in TopProcessesResults(procs, limit, pt_initial, pt_final)
    /\ UNCHANGED <<pt_initial, pt_final, procs, notPt>>

CpuInfoByPid ==
    /\ \E pid \in Pids, exists \in BOOLEAN :
          /\ pid \in DOMAIN pt_initial => exists
          /\ pt_call' = [op |-> "by_pid", arg |-> pid]
          /\ pt_result' = CpuInfoByPidResult(procs, pid, exists, pt_initial, pt_final)
    /\ UNCHANGED <<pt_initial, pt_final, procs, notPt>>

CpuInfoByName ==
    /\ \E name \in QueryNames :
          /\ pt_call' = [op |-> "by_name", arg |-> name]
          /\ pt_result' = CpuInfoByNameResult(procs, name, pt_initial, pt_final)
    /\ UNCHANGED <<pt_initial, pt_final, procs, notPt>>

\* /proc after the window: a process is "ch", "x", or not there
PtProcTables ==
    { ProcTable(e[1], e[2]) :
        e \in {Absent, Proc(<<"c", "h">>, <<"/", "c", "h">>, FALSE, FALSE)}
              \X {Absent, Proc(<<"c", "h">>, <<"/", "c", "h">>, FALSE, FALSE),
                  Proc(<<"x">>, <<"/", "x">>, FALSE, FALSE)} }

\* the snapshots and /proc: a process that is in the first snapshot and not
\* in the second has exited and is not listed afterwards
PtInit ==
    /\ NetIdle /\ StoIdle /\ CpuIdle /\ PqIdle /\ NoGpu
    /\ procs \in PtProcTables
    /\ pt_initial \in ProcessTimesMaps
    /\ pt_final \in ProcessTimesMaps
    /\ \A pid \in DOMAIN pt_initial \ DOMAIN pt_final : ~procs[pid].listed
    /\ pt_call = [op |-> "none"]
    /\ pt_result = <<>>

PtNext == CpuGetTopProcesses \/ CpuInfoByPid \/ CpuInfoByName

SpecCpuProc == PtInit /\ [][PtNext]_vars

----------------------------------------------------------------------------
(* The by-name queries of the CPU, network, storage and RAM detectors over *)
(* a process table.                                                        *)
ProcInit ==
    /\ NetIdle /\ StoIdle /\ CpuIdle /\ PqIdle /\ PtIdle /\ NoGpu
    /\ procs \in [Pids -> ProcEntries]

ProcNext == CpuByName \/ NetByName \/ StoByName \/ RamByName

SpecProc == ProcInit /\ [][ProcNext]_vars

----------------------------------------------------------------------------
(* The rate sampler's call sites, one synchronous call on the calling      *)
(* thread.                                                                 *)

RateInit == NetIdle /\ StoIdle /\ CpuIdle /\ NoProcs /\ PqIdle /\ PtIdle /\ NoGpu

\* no call has been entered yet
NoCall == net_pc = "idle" /\ sto_pc = "idle" /\ cpu_pc = "idle"

RateNext ==
    \/ (NoCall /\ NetReadInitial)
    \/ NetReadFinal
    \/ (NoCall /\ StoNoProcess)
    \/ (NoCall /\ StoReadInitial)
    \/ StoReadFinal
    \/ (NoCall /\ CpuReadInitial)
    \/ CpuReadFinal

SpecRate == RateInit /\ [][RateNext]_vars

----------------------------------------------------------------------------
\* C1: every reported receive/transmit rate is >= 0, and a counter that went
\* down between the two snapshots (reset or wraparound) gives rate 0.
C1_RateClampedAtZero ==
    net_pc = "done" =>
        \A r \in net_result :
            r.name \in DOMAIN net_initial =>
                /\ r.receive_bytes_per_sec >= 0
                /\ r.transmit_bytes_per_sec >= 0
                /\ (net_final[r.name].rx < net_initial[r.name].rx
                        => r.receive_bytes_per_sec = 0)
                /\ (net_final[r.name].tx < net_initial[r.name].tx
                        => r.transmit_bytes_per_sec = 0)

\* C3: with B[key] >= A[key] the rate is (B[key] - A[key]) / 0.1 s, ten times
\* the counter difference; A = {rx: 100}, B = {rx: 1100} gives 10000.
C3_RateIsDeltaOverWindow ==
    /\ net_pc = "done" =>
          \A r \in net_result :
              r.name \in DOMAIN net_initial =>
                  /\ (net_final[r.name].rx >= net_initial[r.name].rx =>
                        r.receive_bytes_per_sec =
                            (net_final[r.name].rx - net_initial[r.name].rx) * 10)
                  /\ (net_final[r.name].tx >= net_initial[r.name].tx =>
                        r.transmit_bytes_per_sec =
                            (net_final[r.name].tx - net_initial[r.name].tx) * 10)
                  /\ (net_initial[r.name].rx = 100 /\ net_final[r.name].rx = 1100 =>
                        r.receive_bytes_per_sec = 10000)
    /\ (sto_pc = "done" /\ sto_result.has_value
            /\ DOMAIN sto_initial = IoKeys /\ DOMAIN sto_final = IoKeys) =>
          /\ (sto_final["read_bytes"] >= sto_initial["read_bytes"] =>
                sto_result.value.read_bytes_per_sec =
                    (sto_final["read_bytes"] - sto_initial["read_bytes"]) * 10)
          /\ (sto_final["write_bytes"] >= sto_initial["write_bytes"] =>
                sto_result.value.write_bytes_per_sec =
                    (sto_final["write_bytes"] - sto_initial["write_bytes"]) * 10)

C3_Witness ==
    /\ net_pc = "done"
    /\ \E r \in net_result :
          /\ r.name \in DOMAIN net_initial
          /\ net_initial[r.name].rx = 100
          /\ net_final[r.name].rx = 1100
          /\ r.receive_bytes_per_sec = 10000

\* C2: a total tick delta of 0, on the aggregate line or on a core, gives a
\* usage percent of 0, not NaN.
C2_ZeroTotalDeltaGivesZero ==
    cpu_pc = "done" =>
        /\ (get_total(CpuStatsAt(cpu_final, -1)) = get_total(CpuStatsAt(cpu_initial, -1))
                => IsZero(cpu_result.total_usage_percent))
        /\ \A k \in 1 .. cpu_result.core_count :
              ( /\ (k - 1) \in DOMAIN cpu_initial
                /\ (k - 1) \in DOMAIN cpu_final
                /\ get_total(cpu_final[k - 1]) = get_total(cpu_initial[k - 1]) )
              => IsZero(cpu_result.cores[k].usage_percent)

\* the listed processes whose short name contains the queried substring
MatchingPids(table, name) ==
    { p \in Pids : table[p].listed /\ Contains(table[p].comm, name) }

C5_MatchOnCommOnly ==
    /\ (pq_pc = "done" /\ pq_result.has_value) =>
          \A k \in 1 .. Len(pq_result.value) :
              Contains(procs[pq_result.value[k].pid].comm, pq_call.process_name)
    /\ (agg_last.op = "by_name" /\ agg_last.result.outcome = "returned"
            /\ agg_last.result.value.has_value) =>
          \A k \in 1 .. Len(agg_last.result.value.value) :
              Contains(procs[agg_last.result.value.value[k].pid].comm, agg_last.arg)

\* C6: when no candidate library loads, is_available() is false and
\* get_gpu_info() returns an empty sequence, normally and without invoking
\* any NVML entry point.
C6_NoLibraryMeansUnavailable ==
    (nv.phase \in {"Unavailable", "Initialized", "Crashed", "Destroyed"} /\ nv_env.libs = {}) =>
        /\ nv.phase \in {"Unavailable", "Destroyed"}
        /\ ~nv.initialized_
        /\ nv.calls = <<>>
        /\ (nv_last.op = "is_available" => nv_last.result = Returned(FALSE, {}))
        /\ (nv_last.op = "get_gpu_info" => nv_last.result = Returned(<<>>, {}))

C6_Witness ==
    /\ nv_env.marker /\ nv_env.libs = {}
    /\ nv_hw.count_ok /\ Len(nv_hw.devs) > 0 /\ nv_hw.devs[1].handle_ok
    /\ nv.phase = "Unavailable"
    /\ nv_last.op = "get_gpu_info"
    /\ nv_last.result = Returned(<<>>, {})

\* the answers of the backends in implementations_, in that order, end to end
InRegistrationOrder(impls, parts) ==
    IF Len(impls) = 0 THEN <<>>
    ELSE IF Len(impls) = 1 THEN parts[impls[1]].value
    ELSE parts[impls[1]].value \o parts[impls[2]].value

\* C7: GPUDetector::get_gpu_info() returns the device records of the retained
\* backends unchanged, in registration order (NVIDIA before AMD): n1 + n2
\* entries for backends reporting n1 and n2.
C7_UnionLaw ==
    (agg_last.op = "get_gpu_info" /\ agg_last.result.outcome = "returned") =>
        /\ agg.implementations_ \in {<<>>, <<"nvidia">>, <<"amd">>, <<"nvidia", "amd">>}
        /\ DOMAIN agg_last.parts = Range(agg.implementations_)
        /\ agg_last.result.value = InRegistrationOrder(agg.implementations_, agg_last.parts)

C7_Witness ==
    /\ agg_last.op = "get_gpu_info" /\ agg_last.result.outcome = "returned"
    /\ agg.implementations_ = <<"nvidia", "amd">>
    /\ Len(agg_last.parts["nvidia"].value) = 2
    /\ Len(agg_last.parts["amd"].value) = 1
    /\ Len(agg_last.result.value) = 3
    /\ agg_last.result.value[3].name = "AMD"

Indices(infos) == [k \in 1 .. Len(infos) |-> infos[k].index]

\* C10: two consecutive get_gpu_info() calls with no hardware change between
\* them end the same way and, when they return, give the same number of
\* devices with the same indices in the same order, for GPUDetector and for
\* each backend it asked.
C10_ListIdempotent ==
    (list_hist.prev.valid /\ list_hist.cur.valid) =>
        /\ list_hist.prev.result.outcome = list_hist.cur.result.outcome
        /\ list_hist.cur.result.outcome = "returned" =>
              /\ Len(list_hist.prev.result.value) = Len(list_hist.cur.result.value)
              /\ Indices(list_hist.prev.result.value) = Indices(list_hist.cur.result.value)
              /\ DOMAIN list_hist.prev.parts = DOMAIN list_hist.cur.parts
              /\ \A b \in DOMAIN list_hist.cur.parts :
                    Indices(list_hist.prev.parts[b].value) = Indices(list_hist.cur.parts[b].value)

C10_Witness ==
    /\ list_hist.prev.valid /\ list_hist.cur.valid
    /\ list_hist.cur.result.outcome = "returned"
    /\ DOMAIN list_hist.cur.parts = {"nvidia", "amd"}
    /\ Len(list_hist.cur.parts["nvidia"].value) = 2
    /\ Indices(list_hist.cur.parts["amd"].value) = <<1, 0>>
    /\ list_hist.prev.result.value # list_hist.cur.result.value

\* the pids with a sample in the utilization sample set of some device
SampledPids(hw) ==
    { p \in Pids : \E i \in 1 .. Len(hw.devs) :
                      \E s \in 1 .. Len(hw.devs[i].samples) : hw.devs[i].samples[s].pid = p }

\* every entry of a GPUProcessInfo sequence whose pid has no sample reports 0
UnsampledReportZero(entries, hw) ==
    \A k \in 1 .. Len(entries) :
        entries[k].pid \notin SampledPids(hw) => entries[k].gpu_usage_percent = 0

\* C11: a process entry of the NVIDIA backend (from device enumeration, the
\* by-pid query or the by-name query) whose pid has no utilization sample
\* reports gpu_usage_percent 0.
C11_UnsampledPidReportsZero ==
    (agg_last.op \in {"get_gpu_info", "by_name", "by_pid"}
        /\ "nvidia" \in DOMAIN agg_last.parts
        /\ agg_last.parts["nvidia"].outcome = "returned") =>
        LET answer == agg_last.parts["nvidia"].value
        IN  IF agg_last.op = "get_gpu_info"
            THEN \A k \in 1 .. Len(answer) : UnsampledReportZero(answer[k].processes, nv_hw)
            ELSE answer.has_value => UnsampledReportZero(answer.value, nv_hw)

\* C12: StorageDetector::get_process_info(pid) for a process that exists at
\* the entry check and whose /proc/<pid>/io cannot be read after the window
\* returns no rates (std::nullopt).
C12_ExitedProcessUnavailable ==
    (sto_pc = "done" /\ sto_initial # <<>> /\ sto_final = <<>>) => sto_result = Nullopt

\* the pids of a CPUProcessInfo sequence
ResultPids(infos) == {infos[k].pid : k \in 1 .. Len(infos)}

\* C13: in get_top_processes and the by-name CPU query, a pid of the first
\* snapshot that is missing from the second is not in the result, and the
\* other processes are still returned.
C13_ExitedPidDropped ==
    LET exited == DOMAIN pt_initial \ DOMAIN pt_final
    IN  /\ pt_call.op = "top" =>
              /\ ResultPids(pt_result) \cap exited = {}
              /\ pt_call.arg >= MaxPid =>
                    (DOMAIN pt_initial \cap DOMAIN pt_final) \subseteq ResultPids(pt_result)
        /\ (pt_call.op = "by_name" /\ pt_result.has_value) =>
              ResultPids(pt_result.value) \cap exited = {}

\* C18: every CPUProcessInfo returned by get_process_info (by pid, by name)
\* and get_top_processes has cpu_usage_percent within 0..100.
C18_ProcessUsageWithinPercent ==
    LET InRange(info) == info.cpu_usage_percent >= 0 /\ info.cpu_usage_percent <= 100
    IN  /\ pt_call.op = "top" => \A k \in 1 .. Len(pt_result) : InRange(pt_result[k])
        /\ (pt_call.op = "by_name" /\ pt_result.has_value) =>
              \A k \in 1 .. Len(pt_result.value) : InRange(pt_result.value[k])
        /\ (pt_call.op = "by_pid" /\ pt_result.has_value) => InRange(pt_result.value)

\* C14: an interface that is in the second snapshot and not in the first has
\* both rates reported as 0, whatever its counters are in the second.
C14_NewKeyRateIsZero ==
    net_pc = "done" =>
        \A r \in net_result :
            r.name \notin DOMAIN net_initial =>
                r.receive_bytes_per_sec = 0 /\ r.transmit_bytes_per_sec = 0

\* C15: every GPUInfo of NvidiaGPUDetector::get_gpu_info() holds, for each of
\* the name, memory, temperature and utilization sub-queries, the queried
\* value when the sub-query succeeded and the zero/empty default when it
\* failed, and a device whose handle is acquired has its record.
C15_FailedSubQueryLeavesDefault ==
    (nv_last.op = "get_gpu_info" /\ nv_last.result.outcome = "returned"
        /\ nv.initialized_ /\ nv_hw.count_ok) =>
        LET answer == nv_last.result.value
        IN  /\ \A n \in 1 .. Len(nv_hw.devs) :
                  nv_hw.devs[n].handle_ok =>
                      \E k \in 1 .. Len(answer) : answer[k].index = n - 1
            /\ \A k \in 1 .. Len(answer) :
                  LET i == answer[k].index
                      failing == nv_hw.devs[i + 1].failing
                  IN  /\ answer[k].name = (IF "name" \in failing THEN "" ELSE "NVIDIA")
                      /\ answer[k].total_memory_mb =
                             (IF "memory" \in failing THEN 0 ELSE 8000 + i)
                      /\ answer[k].used_memory_mb =
                             (IF "memory" \in failing THEN 0 ELSE 100 + i)
                      /\ answer[k].temperature_celsius =
                             (IF "temperature" \in failing THEN 0 ELSE 50 + i)
                      /\ answer[k].utilization_percent =
                             (IF "utilization" \in failing THEN 0 ELSE 10 + i)

\* C16: AMDGPUDetector::get_gpu_info() raises no error whichever of its
\* sources are missing, returns a record for every retained card, and each
\* field is the value read when its source is present and 0/empty when not.
C16_MissingSourceLeavesDefault ==
    (agg_last.op = "get_gpu_info" /\ "amd" \in DOMAIN agg_last.parts
        /\ amd.initialized_) =>
        /\ agg_last.parts["amd"].outcome = "returned"
        /\ LET answer == agg_last.parts["amd"].value
           IN  /\ Len(answer) = Len(amd.gpu_paths_)
               /\ \A k \in 1 .. Len(answer) :
                     LET n == amd.gpu_paths_[k]
                         card == AmdCardAt(amd_hw, n)
                     IN  /\ answer[k].name = (IF card.files THEN "AMD" ELSE "")
                         /\ answer[k].utilization_percent =
                                (IF card.files THEN 20 + n ELSE 0)
                         /\ answer[k].total_memory_mb =
                                (IF card.files THEN 4000 + n ELSE 0)
                         /\ answer[k].used_memory_mb =
                                (IF card.files THEN 200 + n ELSE 0)
                         /\ answer[k].temperature_celsius =
                                (IF card.hwmon = "ok" THEN 40 + n ELSE 0)

\* the pids of the compute list followed by those of the graphics list
MergedPids(dev) ==
    (IF "compute" \in dev.failing THEN {} ELSE {dev.compute[k] : k \in 1 .. Len(dev.compute)})
    \cup (IF "graphics" \in dev.failing THEN {}
          ELSE {dev.graphics[k] : k \in 1 .. Len(dev.graphics)})

\* the smUtil of the last sample of pid, 0 when it has none
LastSampleUtil(samples, pid) ==
    LET at == {s \in 1 .. Len(samples) : samples[s].pid = pid}
    IN  IF at = {} THEN 0
        ELSE samples[CHOOSE s \in at : \A t \in at : t <= s].smUtil

\* the devices of get_gpu_info() whose sampling call fails in some phase
SamplingFails(dev) ==
    dev.handle_ok /\ \E phase \in 1 .. 2 : dev.util_ret[phase] # "SUCCESS"

\* the listing an initialized backend has just returned
NvListed ==
    /\ nv_last.op = "get_gpu_info"
    /\ nv_last.result.outcome = "returned"
    /\ nv.initialized_
    /\ nv_hw.count_ok

\* the records of the listing for device index i
RecordsOf(i) ==
    { k \in 1 .. Len(nv_last.result.value) : nv_last.result.value[k].index = i }

\* C17 as stated: when the sampling call fails in the first phase, the second
\* phase, or both, the device record is returned with the merged process list
\* and every process in it has utilization 0.
C17_SamplingFailureGivesZero ==
    NvListed =>
        \A n \in 1 .. Len(nv_hw.devs) :
            SamplingFails(nv_hw.devs[n]) =>
                /\ Cardinality(RecordsOf(n - 1)) = 1
                /\ \A k \in RecordsOf(n - 1) :
                      LET processes == nv_last.result.value[k].processes
                      IN  /\ ResultPids(processes) = MergedPids(nv_hw.devs[n])
                          /\ \A q \in 1 .. Len(processes) :
                                processes[q].gpu_usage_percent = 0

\* C17, amended: when the sampling call fails in some phase the device record
\* is returned with the merged process list; every process has utilization 0
\* when the second call failed, and when only the first call failed every
\* process has the smUtil of its last sample of the second call (0 without a
\* sample).
C17_SecondPhaseFailureGivesZero ==
    NvListed =>
        \A n \in 1 .. Len(nv_hw.devs) :
            SamplingFails(nv_hw.devs[n]) =>
                /\ Cardinality(RecordsOf(n - 1)) = 1
                /\ \A k \in RecordsOf(n - 1) :
                      LET processes == nv_last.result.value[k].processes
                      IN  /\ ResultPids(processes) = MergedPids(nv_hw.devs[n])
                          /\ \A q \in 1 .. Len(processes) :
                                processes[q].gpu_usage_percent =
                                    IF nv_hw.devs[n].util_ret[2] # "SUCCESS" THEN 0
                                    ELSE LastSampleUtil(nv_hw.devs[n].samples,
                                                        processes[q].pid)

\* a listing of a device with processes and samples whose second sampling
\* call was refused
C17_Witness ==
    /\ NvListed
    /\ \E n \in 1 .. Len(nv_hw.devs) :
          /\ nv_hw.devs[n].handle_ok
          /\ nv_hw.devs[n].util_ret[2] = "NO_PERMISSION"
          /\ nv_hw.devs[n].samples # <<>>
          /\ \E k \in RecordsOf(n - 1) : Len(nv_last.result.value[k].processes) = 2

C20_StateMachine ==
    [][ /\ nv.phase = "Unloaded" => nv'.phase \in {"Probing", "Unavailable"}
        /\ nv.phase = "Probing" => nv'.phase \in {"Unavailable", "Initialized"}
        /\ (nv.phase \in {"Unavailable", "Initialized"} /\ nv'.phase # "Destroyed") =>
              /\ nv'.phase = nv.phase
              /\ nv'.initialized_ = nv.initialized_
              /\ NvIsAvailableResult(nv') = NvIsAvailableResult(nv)
        /\ (nv.phase = "Unavailable" /\ nv'.phase # "Destroyed") =>
              /\ nv'.nvml_handle_ = nv.nvml_handle_
              /\ nv'.loaded = nv.loaded
              /\ nv'.ptrs = nv.ptrs
              /\ nv'.calls = nv.calls ]_vars

\* the initialization entry point is unresolved, or one of its invocations in
\* the constructor's order would not report success
InitFails(env) ==
    \/ "nvmlInit_v2" \notin env.syms
    \/ env.init_rets[1] # "SUCCESS"
    \/ env.init_rets[2] # "SUCCESS"

\* the empty or absent answer of each query
EmptyAnswer(op) ==
    IF op = "is_available" THEN FALSE
    ELSE IF op = "get_gpu_info" THEN <<>>
    ELSE Nullopt

\* C21: when the library has loaded and nvmlInit_v2 is unresolved or an
\* invocation of it in the constructor does not return success, the object is
\* Unavailable after construction, is_available() is false, and every query
\* returns its empty or absent answer having gone through no NVML entry point;
\* the constructor itself has invoked nothing but nvmlInit_v2.
C21_FailedInitMeansUnavailable ==
    (nv.loaded /\ nv.phase # "Destroyed" /\ InitFails(nv_env)) =>
        /\ nv.phase = "Unavailable"
        /\ ~NvIsAvailableResult(nv)
        /\ \A k \in 1 .. Len(nv.calls) : nv.calls[k] = "nvmlInit_v2"
        /\ nv_last.op # "none" =>
              /\ nv_last.result.outcome = "returned"
              /\ nv_last.result.value = EmptyAnswer(nv_last.op)
              /\ nv_last.result.calls = {}

\* a backend whose second nvmlInit_v2 call failed has answered a query for a
\* device by index
C21_Witness ==
    /\ nv.loaded /\ nv.phase = "Unavailable"
    /\ "nvmlInit_v2" \in nv_env.syms
    /\ nv_env.init_rets = <<"SUCCESS", "FAIL">>
    /\ nv_hw.count_ok /\ Len(nv_hw.devs) > 0
    /\ nv_last.op = "get_gpu_info_idx"

\* C22: when dlsym leaves any entry of the table unresolved the object is
\* Unavailable after construction, and no query goes through a pointer that
\* was not resolved.
C22_UnresolvedEntryMeansUnavailable ==
    (nv.loaded /\ nv.phase # "Destroyed" /\ nv.ptrs # NvSymbols) =>
        /\ nv.phase = "Unavailable"
        /\ ~nv.initialized_
        /\ nv_last.op # "none" =>
              /\ nv_last.result.outcome = "returned"
              /\ nv_last.result.calls \subseteq nv.ptrs

\* the number of calls of an entry point in a call history
RECURSIVE CallCount(_, _)
CallCount(calls, entry) ==
    IF calls = <<>> THEN 0
    ELSE (IF Head(calls) = entry THEN 1 ELSE 0) + CallCount(Tail(calls), entry)

\* C23: over the construction and the lifetime of one NvidiaGPUDetector,
\* nvmlInit_v2 is invoked at most once, on every path through load_functions
\* and the constructor.
C23_InitInvokedAtMostOnce ==
    CallCount(nv.calls, "nvmlInit_v2") <= 1

\* the largest timeStamp of a sample sequence, 0 when it is empty
MaxTimeStamp(samples) ==
    IF samples = <<>> THEN 0
    ELSE LET stamps == {samples[k].timeStamp : k \in 1 .. Len(samples)}
         IN  CHOOSE t \in stamps : \A u \in stamps : u <= t

\* C24: in a device listing the first sampling call has cursor 0 and the
\* second call's cursor is the largest timestamp among the samples the first
\* call returned.
C24_CursorIsLatestTimestamp ==
    NvListed =>
        \A n \in 1 .. Len(nv_hw.devs) :
            nv_hw.devs[n].handle_ok =>
                LET first == NvProcessUtilization(nv_hw.devs[n], 0, 1)
                IN  SecondCursor(first) = MaxTimeStamp(first.samples)

\* the elements of a pid list
ListPids(list) == {list[k] : k \in 1 .. Len(list)}

\* the devices of a listing whose two process lists were both obtained
BothListsObtained(dev) ==
    dev.handle_ok /\ "compute" \notin dev.failing /\ "graphics" \notin dev.failing

\* C25 as stated: the process list of a device holds each pid at most once
\* whatever the two lists contain, every pid of either list appears, and a
\* pid of both lists is represented by its compute-list entry.
C25_EachPidOnce ==
    NvListed =>
        \A n \in 1 .. Len(nv_hw.devs) :
            BothListsObtained(nv_hw.devs[n]) =>
                \A r \in RecordsOf(n - 1) :
                    LET processes == nv_last.result.value[r].processes
                        compute == nv_hw.devs[n].compute
                    IN  /\ ResultPids(processes) =
                               ListPids(compute) \cup ListPids(nv_hw.devs[n].graphics)
                        /\ \A a, b \in 1 .. Len(processes) :
                               a # b => processes[a].pid # processes[b].pid
                        /\ \A k \in 1 .. Len(processes) :
                               processes[k].pid \in ListPids(compute) =>
                                   k <= Len(compute) /\ compute[k] = processes[k].pid

\* C25, amended: the process list of a device is the compute list, element for
\* element, followed by the pids of the graphics list that are not in it, each
\* once; every pid of either list appears, a pid of both lists is represented
\* by its compute-list entry, and a pid is repeated only as often as the
\* compute list repeats it.
C25_ComputeThenNewGraphics ==
    NvListed =>
        \A n \in 1 .. Len(nv_hw.devs) :
            BothListsObtained(nv_hw.devs[n]) =>
                \A r \in RecordsOf(n - 1) :
                    LET processes == nv_last.result.value[r].processes
                        compute == nv_hw.devs[n].compute
                    IN  /\ ResultPids(processes) =
                               ListPids(compute) \cup ListPids(nv_hw.devs[n].graphics)
                        /\ Len(processes) >= Len(compute)
                        /\ \A k \in 1 .. Len(compute) : processes[k].pid = compute[k]
                        /\ \A k \in (Len(compute) + 1) .. Len(processes) :
                               /\ processes[k].pid \notin ListPids(compute)
                               /\ \A j \in (Len(compute) + 1) .. Len(processes) :
                                      j # k => processes[j].pid # processes[k].pid

\* a listing of a device with pid 1 in both lists and pid 2 in the graphics
\* list only: two entries
C25_Witness ==
    /\ NvListed
    /\ \E n \in 1 .. Len(nv_hw.devs) :
          /\ BothListsObtained(nv_hw.devs[n])
          /\ nv_hw.devs[n].compute = <<1>>
          /\ nv_hw.devs[n].graphics = <<1, 2>>
          /\ \E r \in RecordsOf(n - 1) : Len(nv_last.result.value[r].processes) = 2

\* the nvmlInit_v2 invocations of a call history that returned NVML_SUCCESS:
\* the k-th invocation returns env.init_rets[k]
SuccessfulInits(calls, env) ==
    Cardinality({ k \in 1 .. CallCount(calls, "nvmlInit_v2") : env.init_rets[k] = "SUCCESS" })

\* C26: at destruction nvmlShutdown has been invoked as many times as
\* nvmlInit_v2 returned success during construction.
C26_ShutdownMatchesInit ==
    nv.phase = "Destroyed" =>
        CallCount(nv.calls, "nvmlShutdown") = SuccessfulInits(nv.calls, nv_env)

\* C27: after GPUDetector::get_gpu_info() has returned a device record of some
\* backend, GPUDetector::get_gpu_info(index) with that record's index returns
\* that backend's device (the hardware unchanged in between), also when
\* another retained backend has a device of the same index.
C27_ListedDeviceFoundByIndex ==
    (agg_last.op = "get_gpu_info_idx" /\ agg_last.result.outcome = "returned"
        /\ list_hist.cur.valid /\ list_hist.cur.result.outcome = "returned") =>
        \A b \in DOMAIN list_hist.cur.parts :
            \A k \in 1 .. Len(list_hist.cur.parts[b].value) :
                LET listed == list_hist.cur.parts[b].value[k]
                IN  listed.index = agg_last.arg =>
                        /\ agg_last.result.value.has_value
                        /\ agg_last.result.value.value.index = listed.index
                        /\ agg_last.result.value.value.name = listed.name

\* C28: every entry of a by-pid answer, of each backend and of the
\* GPUDetector, has the requested pid.
C28_ByPidReturnsOnlyThatPid ==
    (agg_last.op = "by_pid" /\ agg_last.result.outcome = "returned") =>
        /\ agg_last.result.value.has_value =>
              ResultPids(agg_last.result.value.value) \subseteq {agg_last.arg}
        /\ \A b \in DOMAIN agg_last.parts :
              (agg_last.parts[b].outcome = "returned" /\ agg_last.parts[b].value.has_value) =>
                  ResultPids(agg_last.parts[b].value.value) \subseteq {agg_last.arg}

\* the pids the by-name query finds on a device: in a process list that was
\* obtained, with a name that contains the argument
NamedOnDevice(dev, table, name) ==
    { p \in (IF "compute" \in dev.failing THEN {} ELSE ListPids(dev.compute))
            \cup (IF "graphics" \in dev.failing THEN {} ELSE ListPids(dev.graphics)) :
        Contains(get_process_name(table, p), name) }

\* C29: in a non-empty answer of NvidiaGPUDetector::get_process_info(name),
\* every matching process listed on a device has an entry with that device's
\* gpu_index, also when its pid is reported for another device, and an entry
\* whose device sampled its pid carries that device's smUtil for it.
C29_EntriesBelongToTheirDevice ==
    (agg_last.op = "by_name" /\ "nvidia" \in DOMAIN agg_last.parts
        /\ agg_last.parts["nvidia"].outcome = "returned"
        /\ agg_last.parts["nvidia"].value.has_value) =>
        LET answer == agg_last.parts["nvidia"].value.value
        IN  /\ \A n \in 1 .. Len(nv_hw.devs) :
                  nv_hw.devs[n].handle_ok =>
                      \A p \in NamedOnDevice(nv_hw.devs[n], procs, agg_last.arg) :
                          \E k \in 1 .. Len(answer) :
                              answer[k].pid = p /\ answer[k].gpu_index = n - 1
            /\ \A k \in 1 .. Len(answer) :
                  LET dev == nv_hw.devs[answer[k].gpu_index + 1]
                      first == NvProcessUtilization(dev, 0, 1)
                  IN  (\E s \in 1 .. Len(first.samples) : first.samples[s].pid = answer[k].pid) =>
                          answer[k].gpu_usage_percent =
                              FirstSampleUtil(first.samples, answer[k].pid, 0)

\* C30: every CPUInfo of get_cpu_info has one usage_per_core entry per element
\* of cores, in the same order and with the same value, also when a core below
\* the core count has no line in one of the two snapshots.
C30_UsagePerCoreMatchesCores ==
    cpu_pc = "done" =>
        /\ Len(cpu_result.usage_per_core) = Len(cpu_result.cores)
        /\ \A i \in 1 .. Len(cpu_result.cores) :
               i <= Len(cpu_result.usage_per_core) =>
                   cpu_result.usage_per_core[i] = cpu_result.cores[i].usage_percent

====
